---------------------------- MODULE Spec2Model ----------------------------
(***************************************************************************)
(* Backup-schedule extension of the compute command-line client            *)
(* (rax_backup_schedule_python_novaclient_ext/__init__.py).                *)
(*                                                                         *)
(* The model follows one server's backup schedule held by the remote API   *)
(* and the runs made against it: the two CLI commands, backup-schedule     *)
(* (do_backup_schedule) and backup-schedule-delete                         *)
(* (do_backup_schedule_delete), and a library caller that fetches the      *)
(* BackupSchedule resource and calls its update() method with keyword      *)
(* arguments.  A run is split at every HTTP request, since every request   *)
(* may fail and raise.                                                     *)
(*                                                                         *)
(* Python values: None is the empty sequence and a present value v is      *)
(* <<v>>; a dict is a function whose DOMAIN is its key set; a rotation is  *)
(* a Python int (what the API returns and what update() defaults to) or a  *)
(* Python str (what argparse stores for --rotation), kept apart by PyInt   *)
(* and PyStr.                                                              *)
(***************************************************************************)
EXTENDS Integers, Sequences, FiniteSets, TLC

VARIABLES
    pc,               \* position of the current run
    cmd,              \* which entry point is running
    args,             \* the argv of the run, as raw strings
    backup_schedule,  \* the BackupSchedule resource returned by manager.get
    backup,           \* the keyword dict handed to BackupSchedule.update
    reqs,             \* requests issued on the schedule endpoint in this run
    displayed,        \* what utils.print_dict was given
    err,              \* the exception that ended the run, "none" if none
    remote,           \* the schedule the API holds: {} or {document}
    remote0,          \* remote as it was when the run started
    runs              \* runs started so far

vars == <<pc, cmd, args, backup_schedule, backup, reqs, displayed, err,
          remote, remote0, runs>>

-----------------------------------------------------------------------------
(* Bounds *)

MaxRuns == 2
MaxRotation == 1

-----------------------------------------------------------------------------
(* Python values *)

None == <<>>
Some(v) == <<v>>

PyInt(n) == [py |-> "int", text |-> ToString(n)]
PyStr(s) == [py |-> "str", text |-> s]

\* str.upper() on the strings the model uses: every string other than the
\* ones listed holds no lower-case letter and is returned as it is.
upper(s) ==
    CASE s = "disabled"    -> "DISABLED"
      [] s = "monday"      -> "MONDAY"
      [] s = "h_0200_0400" -> "H_0200_0400"
      [] OTHER             -> s

DAY_CHOICES == {"DISABLED", "SUNDAY", "MONDAY", "TUESDAY", "WEDNESDAY",
                "THURSDAY", "FRIDAY", "SATURDAY"}

HOUR_CHOICES == {"DISABLED", "H_0000_0200", "H_0200_0400", "H_0400_0600",
                 "H_0600_0800", "H_0800_1000", "H_1000_1200", "H_1200_1400",
                 "H_1400_1600", "H_1600_1800", "H_1800_2000", "H_2000_2200",
                 "H_2200_0000"}

Fields == {"enabled", "weekly", "daily", "rotation"}

-----------------------------------------------------------------------------
(* The inputs of a run *)

\* Server references given on the command line; only those in Servers exist.
ServerRefs == {"web1", "ghost"}
Servers == {"web1"}

WeeklyInputs == {"MONDAY", "monday", "FUNDAY"}
DailyInputs == {"H_0200_0400", "h_0200_0400", "H_0100_0300"}
RotationInputs == {ToString(n) : n \in -1..MaxRotation} \cup {"many"}

\* argv of backup-schedule: every flag absent or given once.
ScheduleArgs ==
    [server   : ServerRefs,
     enabled  : {None, Some(TRUE), Some(FALSE)},
     weekly   : {None} \cup {Some(w) : w \in WeeklyInputs},
     daily    : {None} \cup {Some(d) : d \in DailyInputs},
     rotation : {None} \cup {Some(r) : r \in RotationInputs}]

\* argv of backup-schedule-delete: the server reference alone.
DeleteArgs ==
    [server : ServerRefs, enabled : {None}, weekly : {None}, daily : {None},
     rotation : {None}]

\* Keyword dicts a library caller passes to BackupSchedule.update.
ApiKwargs ==
    { <<>>,
      [k \in {"rotation"} |-> PyInt(MaxRotation)],
      [k \in {"enabled", "weekly"} |->
          CASE k = "enabled" -> FALSE [] k = "weekly" -> "MONDAY"] }

\* Schedules the API may hold before the first run.
InitialSchedules ==
    [enabled  : BOOLEAN,
     weekly   : {"SUNDAY", "DISABLED"},
     daily    : {"DISABLED", "H_2200_0000"},
     rotation : {PyInt(0), PyInt(MaxRotation + 1)}]

\* What the API answers for a server without a schedule, when it answers
\* with a document rather than 404.
no_schedule_document ==
    [enabled |-> FALSE, weekly |-> "DISABLED", daily |-> "DISABLED",
     rotation |-> PyInt(0)]

-----------------------------------------------------------------------------
(* Requests and exceptions *)

Request(method, body, resp) == [method |-> method, body |-> body, resp |-> resp]

\* The exception the HTTP client raises for a response that is not a success.
Raised(resp) == IF resp = "404" THEN "NotFoundError" ELSE "TransportError"

\* Variant: the call sits in a try/except that passes, so the run goes on.
OutcomeSwallowed(resp, next) == [pc |-> next, err |-> "none"]

\* Variant: the call sits in a try/except that raises one error kind for
\* every failure.
OutcomeWrapped(resp, next) ==
    IF resp = "ok" THEN [pc |-> next, err |-> "none"]
                   ELSE [pc |-> "error", err |-> "TransportError"]

\* No entry point catches an exception: a failed call ends the run with
\* the exception the client raised, a successful one goes on to the next
\* statement.
Outcome(resp, next) ==
    IF resp = "ok" THEN [pc |-> next, err |-> "none"]
                   ELSE [pc |-> "error", err |-> Raised(resp)]

Methods(m) == {i \in 1..Len(reqs) : reqs[i].method = m}
Writes == Methods("POST") \cup Methods("DELETE")

-----------------------------------------------------------------------------
(* The resource and its manager *)

\* A keyword argument of a Python call: the value passed, or the default
\* of the signature.
Param(kw, k, default) == IF k \in DOMAIN kw THEN kw[k] ELSE default

\* BackupScheduleManager.create: the dict sent as body["backupSchedule"].
create(enabled, weekly, daily, rotation) ==
    [enabled |-> enabled, weekly |-> weekly, daily |-> daily,
     rotation |-> rotation]

\* BackupSchedule.update(self, **kw): hands its own parameters, with the
\* defaults of its signature, to manager.create.
update(self, kw) ==
    create(Param(kw, "enabled", TRUE),
           Param(kw, "weekly", "disabled"),
           Param(kw, "daily", "disabled"),
           Param(kw, "rotation", PyInt(0)))

\* Answers of the API to GET /servers/{id}/backup_schedule.  For a server
\* without a schedule the API answers 404 or its disabled document.
GetResponses == IF remote = {} THEN {"ok", "404", "fault"} ELSE {"ok", "fault"}

\* The document of a successful GET.
Fetched == IF remote = {} THEN no_schedule_document ELSE CHOOSE d \in remote : TRUE

\* Answers of the API to DELETE /servers/{id}/backup_schedule.
DeleteResponses == IF remote = {} THEN {"ok", "404", "fault"} ELSE {"ok", "fault"}

\* Variant: the entry points act on the server without fetching its
\* schedule first.
AfterFindSkipGet ==
    CASE cmd = "backup-schedule"        -> "flags"
      [] cmd = "backup-schedule-delete" -> "delete"
      [] cmd = "update"                 -> "update"

\* Where an entry point goes on after find_resource has returned: all of
\* them fetch the schedule before anything else.
AfterFind == "get"

\* Where each entry point goes on after manager.get has returned.
AfterGet ==
    CASE cmd = "backup-schedule"        -> "flags"
      [] cmd = "backup-schedule-delete" -> "delete"
      [] cmd = "update"                 -> "update"

\* BackupScheduleManager.get: one GET; the resource is returned on success
\* and the client's exception is raised otherwise.
manager_get ==
    /\ pc = "get"
    /\ \E resp \in GetResponses :
          /\ reqs' = Append(reqs, Request("GET", None, resp))
          /\ backup_schedule' = IF resp = "ok" THEN Some(Fetched) ELSE None
          /\ pc' = Outcome(resp, AfterGet).pc
          /\ err' = Outcome(resp, AfterGet).err
    /\ UNCHANGED <<cmd, args, backup, displayed, remote, remote0, runs>>

\* BackupScheduleManager.create: one POST of the document.  The API
\* replaces the whole schedule by the body; when the request fails the body
\* may or may not have been applied.
manager_create(body) ==
    \E resp \in {"ok", "fault"} :
        /\ reqs' = Append(reqs, Request("POST", Some(body), resp))
        /\ remote' \in (IF resp = "ok" THEN {{body}} ELSE {remote, {body}})
        /\ pc' = Outcome(resp, "done").pc
        /\ err' = Outcome(resp, "done").err

\* BackupSchedule.delete -> BackupScheduleManager.delete: one DELETE.
manager_delete ==
    \E resp \in DeleteResponses :
        /\ reqs' = Append(reqs, Request("DELETE", None, resp))
        /\ remote' \in (CASE resp = "ok"    -> {{}}
                          [] resp = "404"   -> {remote}
                          [] resp = "fault" -> {remote, {}})
        /\ pc' = Outcome(resp, "done").pc
        /\ err' = Outcome(resp, "done").err

-----------------------------------------------------------------------------
(* The command line *)

\* Variant: --weekly and --daily declared without choices=.
ChoicesAny(a) == TRUE

\* argparse, choices=DAY_CHOICES / choices=HOUR_CHOICES: a value given for
\* --weekly or --daily must be a member of the list, compared as it is.
ChoicesOk(a) ==
    /\ a.weekly = None \/ a.weekly[1] \in DAY_CHOICES
    /\ a.daily = None \/ a.daily[1] \in HOUR_CHOICES

\* Truth value of an optional string: None and '' are false.
Truthy(o) == o # None /\ o[1] # ""

\* Variant: "if args.enabled:" in place of "if args.enabled is not None:".
BackupKeysByTruth(a) ==
    {k \in Fields :
        CASE k = "daily"    -> Truthy(a.daily)
          [] k = "weekly"   -> Truthy(a.weekly)
          [] k = "enabled"  -> a.enabled # None /\ a.enabled[1]
          [] k = "rotation" -> a.rotation # None}

\* The keys do_backup_schedule puts into its backup dict.
BackupKeys(a) ==
    {k \in Fields :
        CASE k = "daily"    -> Truthy(a.daily)
          [] k = "weekly"   -> Truthy(a.weekly)
          [] k = "enabled"  -> a.enabled # None
          [] k = "rotation" -> a.rotation # None}

\* The backup dict of do_backup_schedule.
BackupDict(a) ==
    [k \in BackupKeys(a) |->
        CASE k = "daily"    -> upper(a.daily[1])
          [] k = "weekly"   -> upper(a.weekly[1])
          [] k = "enabled"  -> a.enabled[1]
          [] k = "rotation" -> PyStr(a.rotation[1])]

\* A run starts: the per-run state is fresh.
Start(c, a, at) ==
    /\ pc \in {"idle", "done", "error"}
    /\ runs < MaxRuns
    /\ runs' = runs + 1
    /\ cmd' = c
    /\ args' = a
    /\ pc' = at
    /\ backup_schedule' = None
    /\ backup' = None
    /\ reqs' = <<>>
    /\ displayed' = None
    /\ err' = "none"
    /\ remote0' = remote
    /\ UNCHANGED remote

run_backup_schedule == \E a \in ScheduleArgs : Start("backup-schedule", a, "parse")

run_backup_schedule_delete ==
    \E a \in DeleteArgs : Start("backup-schedule-delete", a, "parse")

\* A library caller holding a server: manager.get(server), then .update(**kw).
call_update ==
    \E a \in {d \in DeleteArgs : d.server \in Servers} : Start("update", a, "get")

\* The argument parser built from the utils.arg decorators.
parse_args ==
    /\ pc = "parse"
    /\ IF ChoicesOk(args)
          THEN pc' = "find" /\ err' = err
          ELSE pc' = "error" /\ err' = "ValidationError"
    /\ UNCHANGED <<cmd, args, backup_schedule, backup, reqs, displayed,
                   remote, remote0, runs>>

\* utils.find_resource(cs.servers, args.server)
find_resource ==
    /\ pc = "find"
    /\ IF args.server \in Servers
          THEN pc' = AfterFind /\ err' = err
          ELSE pc' = "error" /\ err' = "ResolutionError"
    /\ UNCHANGED <<cmd, args, backup_schedule, backup, reqs, displayed,
                   remote, remote0, runs>>

\* do_backup_schedule after the fetch, flags given: update the schedule.
edit_schedule ==
    /\ pc = "flags"
    /\ DOMAIN BackupDict(args) # {}
    /\ backup' = Some(BackupDict(args))
    /\ manager_create(update(backup_schedule, BackupDict(args)))
    /\ UNCHANGED <<cmd, args, backup_schedule, displayed, remote0, runs>>

\* do_backup_schedule after the fetch, no flag given: print the schedule.
show_schedule ==
    /\ pc = "flags"
    /\ DOMAIN BackupDict(args) = {}
    /\ displayed' = backup_schedule
    /\ pc' = "done"
    /\ UNCHANGED <<cmd, args, backup_schedule, backup, reqs, err, remote,
                   remote0, runs>>

\* do_backup_schedule_delete after the fetch: .delete() on the resource.
delete_schedule ==
    /\ pc = "delete"
    /\ manager_delete
    /\ UNCHANGED <<cmd, args, backup_schedule, backup, displayed, remote0, runs>>

\* The library caller's backup_schedule.update(**kw).
resource_update ==
    /\ pc = "update"
    /\ \E kw \in ApiKwargs :
          /\ backup' = Some(kw)
          /\ manager_create(update(backup_schedule, kw))
    /\ UNCHANGED <<cmd, args, backup_schedule, displayed, remote0, runs>>

-----------------------------------------------------------------------------
(* Specification *)

Init ==
    /\ pc = "idle"
    /\ cmd = "none"
    /\ args = None
    /\ backup_schedule = None
    /\ backup = None
    /\ reqs = <<>>
    /\ displayed = None
    /\ err = "none"
    /\ remote \in {{}} \cup {{d} : d \in InitialSchedules}
    /\ remote0 = remote
    /\ runs = 0

Next ==
    \/ run_backup_schedule
    \/ run_backup_schedule_delete
    \/ call_update
    \/ parse_args
    \/ find_resource
    \/ manager_get
    \/ edit_schedule
    \/ show_schedule
    \/ delete_schedule
    \/ resource_update

Spec == Init /\ [][Next]_vars

-----------------------------------------------------------------------------
(* Vocabulary of the properties *)

CliCommands == {"backup-schedule", "backup-schedule-delete"}

\* The field-by-field coalesce of overrides P onto a base document B.
Merge(B, P) == [k \in Fields |-> IF k \in DOMAIN P THEN P[k] ELSE B[k]]

Days == {"DISABLED", "SUNDAY", "MONDAY", "TUESDAY", "WEDNESDAY", "THURSDAY",
         "FRIDAY", "SATURDAY"}

Windows == {"DISABLED", "H_0000_0200", "H_0200_0400", "H_0400_0600",
            "H_0600_0800", "H_0800_1000", "H_1000_1200", "H_1200_1400",
            "H_1400_1600", "H_1600_1800", "H_1800_2000", "H_2000_2200",
            "H_2200_0000"}

\* A rotation that denotes zero or a positive integer.
NonNegative(v) == \E n \in 0..(MaxRotation + 1) : v.text = ToString(n)

NoFlags(a) ==
    a.enabled = None /\ a.weekly = None /\ a.daily = None /\ a.rotation = None

Posts == Methods("POST")
Failed == {i \in 1..Len(reqs) : reqs[i].resp # "ok"}

-----------------------------------------------------------------------------
(* Properties *)

\* C1: the document POSTed by backup-schedule with a non-empty set of
\* overrides P equals the fetched base B on every field absent from P and
\* equals P on every field present in P.
C1_PostIsMerge ==
    (cmd = "backup-schedule" /\ backup # None /\ backup_schedule # None) =>
        \A i \in Posts : reqs[i].body[1] = Merge(backup_schedule[1], backup[1])

\* C2: in every POST body sent by backup-schedule, weekly is a member of
\* the 8 upper-case day choices and daily a member of the 13 upper-case
\* window choices.
C2_WireEnumerated ==
    cmd = "backup-schedule" =>
        \A i \in Posts : /\ reqs[i].body[1].weekly \in Days
                         /\ reqs[i].body[1].daily \in Windows

\* C3: a backup-schedule run whose --weekly value is not one of the 8 day
\* choices, or whose --daily value is not one of the 13 window choices, ends
\* in a validation error with no request issued and the remote schedule as
\* it was.
C3_BadChoiceRejected ==
    (/\ cmd = "backup-schedule"
     /\ pc # "parse"
     /\ \/ args.weekly # None /\ args.weekly[1] \notin Days
        \/ args.daily # None /\ args.daily[1] \notin Windows)
    => (/\ pc = "error"
        /\ err = "ValidationError"
        /\ reqs = <<>>
        /\ remote = remote0)

C3_Witness ==
    /\ cmd = "backup-schedule"
    /\ pc = "error"
    /\ err = "ValidationError"
    /\ args.server \in Servers
    /\ args.weekly = Some("FUNDAY")
    /\ args.daily = None

\* C4: a --weekly or --daily value in any letter case whose upper-cased form
\* is one of the choices is accepted, and is sent upper-cased in the POST.
C4_AnyCaseAccepted ==
    (/\ cmd = "backup-schedule"
     /\ pc # "parse"
     /\ args.weekly = None \/ upper(args.weekly[1]) \in Days
     /\ args.daily = None \/ upper(args.daily[1]) \in Windows)
    => (/\ err # "ValidationError"
        /\ \A i \in Posts :
              /\ args.weekly # None => reqs[i].body[1].weekly = upper(args.weekly[1])
              /\ args.daily # None => reqs[i].body[1].daily = upper(args.daily[1]))

\* C5: a backup-schedule run whose --rotation value is negative or not a
\* number ends in a validation error before any request, so no POST carries
\* such a rotation.
C5_RotationValidated ==
    cmd = "backup-schedule" =>
        /\ \A i \in Posts : NonNegative(reqs[i].body[1].rotation)
        /\ (/\ pc # "parse"
            /\ args.rotation # None
            /\ ~NonNegative(PyStr(args.rotation[1])))
           => (pc = "error" /\ err = "ValidationError" /\ reqs = <<>>)

\* C6: an update with an empty override set applied to the fetched schedule
\* D sends D, so the remote schedule afterwards equals the document fetched.
C6_NoOpRoundTrip ==
    (backup # None /\ backup_schedule # None /\ DOMAIN backup[1] = {}) =>
        \A i \in Posts :
            /\ reqs[i].body[1] = backup_schedule[1]
            /\ reqs[i].resp = "ok" => remote = {backup_schedule[1]}

\* C7: backup-schedule with no override flag issues the GET, displays the
\* fetched document and issues no POST and no DELETE, leaving the remote
\* schedule as it was; with at least one flag (--disable and --rotation 0
\* included) a run whose fetch succeeded issues exactly one POST.
C7_ShowOrOnePost ==
    cmd = "backup-schedule" =>
        /\ Cardinality(Posts) <= 1
        /\ NoFlags(args) => (Writes = {} /\ remote = remote0)
        /\ (NoFlags(args) /\ pc = "done") =>
              /\ Len(reqs) = 1
              /\ reqs[1].method = "GET"
              /\ displayed # None
              /\ displayed = backup_schedule
              /\ remote0 # {} => displayed[1] \in remote0
        /\ (~NoFlags(args) /\ pc \in {"done", "error"} /\ backup_schedule # None)
              => Cardinality(Posts) = 1

C7_Witness ==
    /\ cmd = "backup-schedule"
    /\ pc = "done"
    /\ args.enabled = Some(FALSE)
    /\ args.weekly = None
    /\ args.daily = None
    /\ args.rotation = Some("0")
    /\ Cardinality(Posts) = 1
    /\ remote # remote0

\* C8: a run of either CLI command issues at most one GET and at most one
\* write (POST or DELETE) on the schedule endpoint, and every write comes
\* after a GET of the same run that returned successfully.
C8_ReadThenWrite ==
    cmd \in CliCommands =>
        /\ Cardinality(Methods("GET")) <= 1
        /\ Cardinality(Writes) <= 1
        /\ \A w \in Writes :
              \E g \in Methods("GET") : g < w /\ reqs[g].resp = "ok"

C8_Witness ==
    /\ cmd = "backup-schedule-delete"
    /\ pc = "done"
    /\ Len(reqs) = 2
    /\ reqs[1].method = "GET"
    /\ reqs[2].method = "DELETE"
    /\ remote0 # {}
    /\ remote = {}

\* C9: an error ends the run: after a failed server resolution no request
\* has been issued; a failed GET, POST or DELETE is the last request of its
\* run (nothing follows it and it is not sent again) and leaves the run in
\* the error state; and when no write was issued before the failure the
\* remote schedule is as it was.
C9_ErrorsTerminal ==
    cmd \in CliCommands =>
        /\ err # "none" => pc = "error"
        /\ err \in {"ResolutionError", "ValidationError"} => reqs = <<>>
        /\ \A i \in Failed : i = Len(reqs) /\ pc = "error" /\ err # "none"
        /\ (pc = "error" /\ Writes = {}) => remote = remote0

C9_Witness ==
    /\ cmd = "backup-schedule"
    /\ pc = "error"
    /\ err = "TransportError"
    /\ ~NoFlags(args)
    /\ Len(reqs) = 1
    /\ reqs[1].method = "GET"
    /\ remote0 # {}

\* C10: backup-schedule-delete for a resolved server without a schedule
\* ends in success with the remote state as it was, or, unless a request
\* met a transport fault, in NotFoundError; and a NotFoundError from the GET
\* ends the run with no DELETE sent.
C10_DeleteWithoutSchedule ==
    (cmd = "backup-schedule-delete" /\ remote0 = {}) =>
        /\ pc = "done" => remote = remote0
        /\ (pc = "error" /\ args.server \in Servers
              /\ \A i \in Failed : reqs[i].resp # "fault")
              => err = "NotFoundError"
        /\ (\E g \in Methods("GET") : reqs[g].resp = "404")
              => (pc = "error" /\ err = "NotFoundError" /\ Methods("DELETE") = {})

C10_Witness ==
    /\ cmd = "backup-schedule-delete"
    /\ remote0 = {}
    /\ pc = "error"
    /\ err = "NotFoundError"
    /\ Len(reqs) = 1
    /\ reqs[1].method = "GET"
    /\ reqs[1].resp = "404"

=============================================================================
